---- MODULE Spec2Model ----
(***************************************************************************)
(* Model of the mptcpd "real_ip" plugin (src/lib.rs).                      *)
(*                                                                         *)
(* The daemon loads the plugin (init), then delivers new_local_address     *)
(* events to addr_add.  addr_add decodes the raw socket address, builds an *)
(* HTTP client bound to it, drives one GET on a call-scoped runtime, parses*)
(* the body as an IP address and hands the result to the path manager.     *)
(*                                                                         *)
(* Bytes are naturals 0..255.  A machine word (u32, u128) is the sequence  *)
(* of its base-256 digits, most significant first, so that byte order      *)
(* conversions are permutations of digits and never overflow.              *)
(* Text is a sequence of one-character strings.                            *)
(***************************************************************************)
EXTENDS Integers, Sequences, FiniteSets, TLC

(***************************************************************************)
(* Generic helpers                                                         *)
(***************************************************************************)
None == <<>>

Some(x) == <<x>>

IsSome(o) == Len(o) = 1

Unwrap(o) == o[1]

Reverse(s) == [i \in 1..Len(s) |-> s[Len(s) + 1 - i]]

Zeros(n) == [i \in 1..n |-> 0]

(***************************************************************************)
(* Address Decoder (lib.rs 111-125) and its inverse (lib.rs 189)           *)
(***************************************************************************)
AF_INET == 2

AF_INET6 == 10

\* Reading a word from memory in native byte order: on a little-endian host
\* the first byte in memory is the least significant digit.
NativeLoad(mem, little) == IF little THEN Reverse(mem) ELSE mem

NativeStore(word, little) == IF little THEN Reverse(word) ELSE word

FromBe_omitted(word, little) == word

\* u32::from_be: a byte swap on a little-endian host, the identity otherwise.
FromBe(word, little) == IF little THEN Reverse(word) ELSE word

\* u128::from_be_bytes: the first byte is the most significant digit.
FromBeBytes(bytes) == bytes

\* Ipv4Addr::from(u32) / Ipv6Addr::from(u128): octets are the big-endian
\* bytes of the word.
ToBeBytes(word) == word

V4(octets) == [v |-> 4, octets |-> octets]

V6(octets) == [v |-> 6, octets |-> octets]

DecodeV4(mem, little) == V4(ToBeBytes(FromBe(NativeLoad(mem, little), little)))

DecodeV6(mem) == V6(ToBeBytes(FromBeBytes(mem)))

DecodeSockaddr_fallthrough(raw, little) ==
    IF raw.sa_family = AF_INET THEN Some(DecodeV4(raw.mem, little))
    ELSE Some(DecodeV6(raw.mem))

\* The src_addr block of addr_add: Some(address), or None for "unknown sa family".
DecodeSockaddr(raw, little) ==
    IF raw.sa_family = AF_INET THEN Some(DecodeV4(raw.mem, little))
    ELSE IF raw.sa_family = AF_INET6 THEN Some(DecodeV6(raw.mem))
    ELSE None

\* SockAddr::from(SocketAddr::new(ip, 0)): sin_addr.s_addr is
\* u32::from_ne_bytes(octets), sin6_addr.s6_addr is the octets; port 0.
EncodeSockAddr(ip, port, little) ==
    IF ip.v = 4
    THEN [sa_family |-> AF_INET, port |-> port,
          mem |-> NativeStore(NativeLoad(ip.octets, little), little)]
    ELSE [sa_family |-> AF_INET6, port |-> port, mem |-> ip.octets]

(***************************************************************************)
(* Body decoding (lib.rs 172-176): from_utf8_lossy, trim, parse::<IpAddr>  *)
(***************************************************************************)
\* A body byte is modelled by the character it encodes; "\\xFF" stands for a
\* byte that is not valid UTF-8 and "\\uFFFD" for the replacement character.
InvalidByte == "\\xFF"

Replacement == "\\uFFFD"

FromUtf8Lossy(bytes) ==
    [i \in 1..Len(bytes) |-> IF bytes[i] = InvalidByte THEN Replacement ELSE bytes[i]]

WhiteSpace == {" ", "\n", "\r", "\t"}

RECURSIVE TrimStart(_)
TrimStart(s) ==
    IF s # <<>> /\ Head(s) \in WhiteSpace THEN TrimStart(Tail(s)) ELSE s

Trim(s) == Reverse(TrimStart(Reverse(TrimStart(s))))

HexLower == <<"0", "1", "2", "3", "4", "5", "6", "7", "8", "9",
              "a", "b", "c", "d", "e", "f">>

HexUpper == <<"0", "1", "2", "3", "4", "5", "6", "7", "8", "9",
              "A", "B", "C", "D", "E", "F">>

\* char::to_digit(radix): Some(value) or None
IsDigit(c, radix) == \E i \in 1..radix : HexLower[i] = c \/ HexUpper[i] = c

DigitVal(c) == (CHOOSE i \in 1..16 : HexLower[i] = c \/ HexUpper[i] = c) - 1

Fail(pos) == [ok |-> FALSE, pos |-> pos, val |-> <<>>]

Ok(pos, val) == [ok |-> TRUE, pos |-> pos, val |-> val]

\* Parser::read_atomically: a failed read leaves the position where it was.
Atomic(pos, r) == IF r.ok THEN r ELSE Fail(pos)

RECURSIVE DigitRun(_, _, _)
DigitRun(s, pos, radix) ==
    IF pos >= 1 /\ pos <= Len(s) /\ IsDigit(s[pos], radix)
    THEN 1 + DigitRun(s, pos + 1, radix)
    ELSE 0

RECURSIVE NumVal(_, _, _, _)
NumVal(s, pos, n, radix) ==
    IF n = 0 THEN 0
    ELSE NumVal(s, pos, n - 1, radix) * radix + DigitVal(s[pos + n - 1])

CheckedValue(pos, n, maxVal, v) == IF v > maxVal THEN Fail(pos) ELSE Ok(pos + n, <<v>>)

CheckedDigits(s, pos, radix, maxDigits, allowZeroPrefix, maxVal, n) ==
    IF n = 0 \/ n > maxDigits THEN Fail(pos)
    ELSE IF ~allowZeroPrefix /\ s[pos] = "0" /\ n > 1 THEN Fail(pos)
    ELSE CheckedValue(pos, n, maxVal, NumVal(s, pos, n, radix))

\* Parser::read_number(radix, Some(maxDigits), allowZeroPrefix) into a type
\* whose largest value is maxVal.  It consumes every digit it sees and fails
\* when there are none, too many, a forbidden leading zero, or an overflow.
ReadNumber(s, pos, radix, maxDigits, allowZeroPrefix, maxVal) ==
    CheckedDigits(s, pos, radix, maxDigits, allowZeroPrefix, maxVal,
                  DigitRun(s, pos, radix))

\* Parser::read_given_char
HasChar(s, pos, c) == pos >= 1 /\ pos <= Len(s) /\ s[pos] = c

\* Parser::read_separator: no separator before the first item; the position
\* after the separator otherwise, or 0 (no position) when it is missing.
AfterSep(s, pos, index, sep) ==
    IF index = 0 THEN pos ELSE IF HasChar(s, pos, sep) THEN pos + 1 ELSE 0

\* read_separator('.', index, read_number(10, Some(3), false)) for u8
ReadOctet(s, pos, index) ==
    Atomic(pos, ReadNumber(s, AfterSep(s, pos, index, "."), 10, 3, FALSE, 255))

RECURSIVE ReadV4From(_, _, _, _, _)
RECURSIVE ReadV4Next(_, _, _, _, _)
ReadV4Next(s, start, index, acc, r) ==
    IF r.ok THEN ReadV4From(s, start, r.pos, index + 1, acc \o r.val) ELSE Fail(start)

ReadV4From(s, start, pos, index, acc) ==
    IF index = 4 THEN Ok(pos, acc)
    ELSE ReadV4Next(s, start, index, acc, ReadOctet(s, pos, index))

\* Parser::read_ipv4_addr: four decimal octets separated by dots.
ReadIpv4Addr(s, pos) ==
    IF pos >= 1 THEN ReadV4From(s, pos, pos, 0, <<>>) ELSE Fail(pos)

\* read_separator(':', index, read_ipv4_addr)
ReadSepV4(s, pos, index) == Atomic(pos, ReadIpv4Addr(s, AfterSep(s, pos, index, ":")))

\* read_separator(':', index, read_number(16, Some(4), true)) for u16
ReadSepGroup(s, pos, index) ==
    Atomic(pos, ReadNumber(s, AfterSep(s, pos, index, ":"), 16, 4, TRUE, 65535))

\* u16::to_be_bytes
U16Bytes(g) == <<g \div 256, g % 256>>

\* read_groups of read_ipv6_addr: up to limit 16-bit groups, the last two of
\* which may be an embedded dotted IPv4 address.  Groups are kept as bytes.
RECURSIVE ReadGroups(_, _, _, _, _)
RECURSIVE ReadGroupsNext(_, _, _, _, _, _, _)
ReadGroupsNext(s, pos, i, limit, acc, embedded, group) ==
    IF embedded.ok
    THEN [n |-> i + 2, v4 |-> TRUE, pos |-> embedded.pos, octets |-> acc \o embedded.val]
    ELSE IF group.ok
    THEN ReadGroups(s, group.pos, i + 1, limit, acc \o U16Bytes(group.val[1]))
    ELSE [n |-> i, v4 |-> FALSE, pos |-> pos, octets |-> acc]

ReadGroups(s, pos, i, limit, acc) ==
    IF i >= limit THEN [n |-> i, v4 |-> FALSE, pos |-> pos, octets |-> acc]
    ELSE ReadGroupsNext(s, pos, i, limit, acc,
                        IF i < limit - 1 THEN ReadSepV4(s, pos, i) ELSE Fail(pos),
                        ReadSepGroup(s, pos, i))

\* the head and the tail around "::", with the zero groups it stands for
JoinGroups(head, tail) ==
    Ok(tail.pos, head.octets \o Zeros(2 * (8 - head.n - tail.n)) \o tail.octets)

ReadIpv6Tail(s, pos, head) ==
    IF head.n = 8 THEN Ok(head.pos, head.octets)
    ELSE IF head.v4 THEN Fail(pos)
    ELSE IF ~(HasChar(s, head.pos, ":") /\ HasChar(s, head.pos + 1, ":")) THEN Fail(pos)
    ELSE JoinGroups(head, ReadGroups(s, head.pos + 2, 0, 8 - (head.n + 1), <<>>))

\* Parser::read_ipv6_addr
ReadIpv6Addr(s, pos) == ReadIpv6Tail(s, pos, ReadGroups(s, pos, 0, 8, <<>>))

\* Parser::parse_with: the whole input must have been consumed.
Whole(s, r, v) == IF r.ok /\ r.pos = Len(s) + 1 THEN Some([v |-> v, octets |-> r.val]) ELSE None

ReadIpAddr(s, a) == IF a.ok THEN Whole(s, a, 4) ELSE Whole(s, ReadIpv6Addr(s, 1), 6)

\* <IpAddr as FromStr>::from_str: read_ipv4_addr, else read_ipv6_addr.
ParseIpAddr(s) == ReadIpAddr(s, ReadIpv4Addr(s, 1))

\* lib.rs 172-176: String::from_utf8_lossy(&body).trim().parse::<IpAddr>()
ParseBody(bytes) == ParseIpAddr(Trim(FromUtf8Lossy(bytes)))


\* lib.rs 131: str::parse::<u64>() of the timeout text: an optional "+" and
\* then one or more decimal digits (values here stay far below u64::MAX).
ParseU64(s) ==
    LET start == IF HasChar(s, 1, "+") THEN 2 ELSE 1
        n == DigitRun(s, start, 10)
    IN  IF n > 0 /\ start + n = Len(s) + 1 THEN Some(NumVal(s, start, n, 10)) ELSE None

(***************************************************************************)
(* Configuration (lib.rs 26, 96-99, 129-133)                               *)
(***************************************************************************)
GET_MY_IP == "https://icanhazip.com"

DefaultTimeoutSecs == 10

\* env::var(..).ok().map(Cow::Owned).unwrap_or(Cow::Borrowed(GET_MY_IP))
HttpServer(environ) ==
    IF IsSome(environ.REAL_IP_HTTP_SERVER) THEN Unwrap(environ.REAL_IP_HTTP_SERVER)
    ELSE GET_MY_IP

\* env::var(..).ok().and_then(parse).map(from_secs).unwrap_or(from_secs(10))
TimeoutSecs(environ) ==
    IF IsSome(environ.REAL_IP_TIMEOUT_SECONDS)
       /\ IsSome(ParseU64(Unwrap(environ.REAL_IP_TIMEOUT_SECONDS)))
    THEN Unwrap(ParseU64(Unwrap(environ.REAL_IP_TIMEOUT_SECONDS)))
    ELSE DefaultTimeoutSecs

\* MPTCPD_ADDR_FLAG_SIGNAL | MPTCPD_ADDR_FLAG_SUBFLOW (lib.rs 199): the bitwise
\* or of two distinct flag bits is the set of the two flags.
AdvertisementFlags == {"SIGNAL", "SUBFLOW"}

StatusOK == 200

StatusAccepted_lenient(status) == status < 500

\* lib.rs 158: status_code != StatusCode::OK is an error
StatusAccepted(status) == status = StatusOK

(***************************************************************************)
(* Bounds and input domains                                                *)
(***************************************************************************)
MaxIfIndex == 2

MaxId == 2

Slots == {1, 2}

IfIndexes == 1..MaxIfIndex

\* mptcpd_aid_t values the identifier manager may answer
Ids == 0..MaxId

\* result codes of mptcpd_kpm_add_addr: 0 is success
RetCodes == {0, -1, 95}

Families == {0, 1, AF_INET, AF_INET6, 17}

BitBytes == {0, 255}

V4Payloads ==
    {<<a, b, c, d>> : a \in BitBytes, b \in BitBytes, c \in BitBytes, d \in BitBytes}
    \cup {<<93, 184, 216, 34>>, <<192, 168, 1, 10>>}

V6Payloads ==
    { <<32, 1, 13, 184, 0, 0, 0, 0, 0, 0, 0, 0, 0, 0, 0, 1>>,
      <<254, 128, 0, 0, 0, 0, 0, 0, 2, 17, 34, 255, 254, 51, 68, 85>>,
      [i \in 1..16 |-> 16 * i - 1] }

RawRecord(family, mem) == [sa_family |-> family, mem |-> mem]

\* Raw address records the daemon may deliver: many when events come one at a
\* time, three when two events are in flight together.
RawAddrs(conc) ==
    IF conc
    THEN { RawRecord(AF_INET, <<93, 184, 216, 34>>),
           RawRecord(AF_INET6, <<32, 1, 13, 184, 0, 0, 0, 0, 0, 0, 0, 0, 0, 0, 0, 1>>),
           RawRecord(17, <<>>) }
    ELSE {RawRecord(AF_INET, m) : m \in V4Payloads}
         \cup {RawRecord(AF_INET6, m) : m \in V6Payloads}
         \cup {RawRecord(f, <<>>) : f \in Families \ {AF_INET, AF_INET6}}

BodyOkV4 == <<"2", "0", "3", ".", "0", ".", "1", "1", "3", ".", "7", "\n">>

BodyOkV6 == <<" ", "2", "0", "0", "1", ":", "D", "b", "8", ":", ":", "1", "\r", "\n">>

BodyMappedV6 == <<":", ":", "f", "f", "f", "f", ":", "1", "0", ".", "0", ".", "0", ".", "1">>

BodyNotAnIp == <<"n", "o", "t", "-", "a", "n", "-", "i", "p">>

BodyEmpty == <<"\n">>

BodyOctetOverflow == <<"2", "5", "6", ".", "0", ".", "0", ".", "1">>

BodyLeadingZero == <<"1", "0", ".", "0", "1", ".", "0", ".", "1">>

BodyInvalidUtf8 == <<InvalidByte, "1", ".", "2", ".", "3", ".", "4">>

BodyTwoAddrs == <<"1", ".", "2", ".", "3", ".", "4", " ", "5", ".", "6", ".", "7", ".", "8">>

BodyWithPort == <<"1", ".", "2", ".", "3", ".", "4", ":", "8", "0">>

Bodies(conc) ==
    IF conc THEN {BodyOkV4, BodyNotAnIp}
    ELSE {BodyOkV4, BodyOkV6, BodyMappedV6, BodyNotAnIp, BodyEmpty, BodyOctetOverflow,
          BodyLeadingZero, BodyInvalidUtf8, BodyTwoAddrs, BodyWithPort}

Statuses(conc) == IF conc THEN {StatusOK, 503} ELSE {StatusOK, 503, 404}

Environ(server, timeout) ==
    [REAL_IP_HTTP_SERVER |-> server, REAL_IP_TIMEOUT_SECONDS |-> timeout]

\* Process environments: both variables unset, and overrides whose timeout
\* text does not parse, is zero, or carries a sign.
Environs ==
    { Environ(None, None),
      Environ(Some("http://lookup.test/ip"), Some(<<"1", "s">>)),
      Environ(None, Some(<<"0">>)),
      Environ(Some("http://lookup.test/ip"), Some(<<"+", "1">>)) }

(***************************************************************************)
(* State                                                                   *)
(***************************************************************************)
VARIABLES
    host,         \* the daemon process: "unloaded", "running", "load_failed",
                  \* "exited", or "aborted" / "unwound" (a panic left an
                  \* extern "C" function)
    little,       \* the host is little-endian
    environ,      \* the process environment
    concurrent,   \* the daemon delivers events on two threads at once
    pc,           \* per event: position inside addr_add
    iface_index,  \* per event: (*i).index
    raw_sa,       \* per event: the record behind the sa pointer
    http_server,  \* per event: the lookup URL
    src_addr,     \* per event: Option of the decoded address
    client,       \* per event: Option of the built reqwest client
    rt,           \* per event: "none", "live" or "dropped" tokio runtime
    elapsed,      \* per event: seconds since the request was sent
    resp,         \* per event: what the endpoint answered so far
    ip,           \* per event: Option of the parsed real ip
    id,           \* per event: Option of the identifier the daemon returned
    steps         \* per event: the steps taken so far, in order

vars == <<host, little, environ, concurrent, pc, iface_index, raw_sa, http_server,
          src_addr, client, rt, elapsed, resp, ip, id, steps>>

NoResp == [status |-> None, body |-> None]

\* One entry of the step log.  Every entry has every field.
Step(op, ok) ==
    [op |-> op, ok |-> ok, bind |-> None, url |-> "", timeout |-> 0,
     addr |-> None, id |-> 0, flags |-> {}, index |-> 0, ret |-> 0]

Log(e, entries) == [steps EXCEPT ![e] = @ \o entries]

Other(e) == CHOOSE o \in Slots : o # e

Init ==
    /\ host = "unloaded"
    /\ little \in BOOLEAN
    /\ environ \in Environs
    /\ concurrent \in BOOLEAN
    /\ pc = [e \in Slots |-> "idle"]
    /\ iface_index = [e \in Slots |-> 0]
    /\ raw_sa = [e \in Slots |-> RawRecord(0, <<>>)]
    /\ http_server = [e \in Slots |-> ""]
    /\ src_addr = [e \in Slots |-> None]
    /\ client = [e \in Slots |-> None]
    /\ rt = [e \in Slots |-> "none"]
    /\ elapsed = [e \in Slots |-> 0]
    /\ resp = [e \in Slots |-> NoResp]
    /\ ip = [e \in Slots |-> None]
    /\ id = [e \in Slots |-> None]
    /\ steps = [e \in Slots |-> <<>>]

(***************************************************************************)
(* Plugin lifecycle (lib.rs 62-91)                                         *)
(***************************************************************************)
\* A panic that reaches the boundary of an extern "C" function aborts the
\* process; on toolchains that do not insert the abort it unwinds into the
\* daemon's frames, which is undefined.  Either way the daemon is gone.
PanicOutcomes == {"aborted", "unwound"}

\* init: init_log() panics when a global subscriber is already installed;
\* mptcpd_plugin_register_ops decides between 0 and -1.
PluginInit ==
    /\ host = "unloaded"
    /\ \E logOk \in BOOLEAN, registered \in BOOLEAN, crash \in PanicOutcomes :
          host' = IF ~logOk THEN crash
                  ELSE IF registered THEN "running" ELSE "load_failed"
    /\ UNCHANGED <<little, environ, concurrent, pc, iface_index, raw_sa, http_server,
                   src_addr, client, rt, elapsed, resp, ip, id, steps>>

\* exit: the daemon unloads the plugin between events; only a log line.
PluginExit ==
    /\ host = "running"
    /\ \A e \in Slots : pc[e] \in {"idle", "returned"}
    /\ host' = "exited"
    /\ UNCHANGED <<little, environ, concurrent, pc, iface_index, raw_sa, http_server,
                   src_addr, client, rt, elapsed, resp, ip, id, steps>>

(***************************************************************************)
(* addr_add (lib.rs 93-211)                                                *)
(***************************************************************************)
InFlight(e) == pc[e] \notin {"idle", "returned", "panicked"}

\* The interface of an event: any interface when events come one at a time;
\* with two threads, thread e serves interface e.
IfIndexesOf(e) == IF concurrent THEN {e} ELSE IfIndexes

LocalAddressArg_unspecified(e) == V4(<<0, 0, 0, 0>>)

\* lib.rs 136: the address the client is told to bind to
LocalAddressArg(e) == Unwrap(src_addr[e])

IndexArg_shared(e) == iface_index[Other(e)]

\* lib.rs 200: the interface index handed to mptcpd_kpm_add_addr
IndexArg(e) == iface_index[e]

FlagsArg_signal == {"SIGNAL"}

\* lib.rs 199
FlagsArg == AdvertisementFlags

\* lib.rs 189: SockAddr::from(SocketAddr::new(ip, 0))
SockAddrOf(e) == EncodeSockAddr(Unwrap(ip[e]), 0, little)

IdArg_own(e) == 1

\* lib.rs 198: the identifier handed to mptcpd_kpm_add_addr
IdArg(e) == Unwrap(id[e])

AfterAddAddr_retry(res) == IF res = 0 THEN "returned" ELSE "got_id"

\* lib.rs 204-211: whatever the result, addr_add returns
AfterAddAddr(res) == "returned"

\* lib.rs 93-125: the daemon calls addr_add; the index and the URL are read
\* and the address is decoded.  An unknown family returns at once.
NewLocalAddress(e) ==
    /\ host = "running"
    /\ pc[e] \in {"idle", "returned"}
    /\ concurrent \/ e = 1
    /\ \E index \in IfIndexesOf(e), raw \in RawAddrs(concurrent) :
          LET decoded == DecodeSockaddr(raw, little)
          IN  /\ iface_index' = [iface_index EXCEPT ![e] = index]
              /\ raw_sa' = [raw_sa EXCEPT ![e] = raw]
              /\ src_addr' = [src_addr EXCEPT ![e] = decoded]
              /\ steps' = [steps EXCEPT ![e] = <<Step("decode", IsSome(decoded))>>]
              /\ pc' = [pc EXCEPT ![e] = IF IsSome(decoded) THEN "decoded" ELSE "returned"]
    /\ http_server' = [http_server EXCEPT ![e] = HttpServer(environ)]
    /\ client' = [client EXCEPT ![e] = None]
    /\ rt' = [rt EXCEPT ![e] = "none"]
    /\ elapsed' = [elapsed EXCEPT ![e] = 0]
    /\ resp' = [resp EXCEPT ![e] = NoResp]
    /\ ip' = [ip EXCEPT ![e] = None]
    /\ id' = [id EXCEPT ![e] = None]
    /\ UNCHANGED <<host, little, environ, concurrent>>

\* lib.rs 129-147: the timeout is read and the client is built, or the build
\* fails and the callback returns.
BuildClient(e) ==
    /\ pc[e] = "decoded"
    /\ \E built \in BOOLEAN :
          LET c == [local_address |-> LocalAddressArg(e), timeout |-> TimeoutSecs(environ)]
              entry == [Step("build_client", built) EXCEPT
                            !.bind = Some(c.local_address), !.timeout = c.timeout]
          IN  /\ client' = [client EXCEPT ![e] = IF built THEN Some(c) ELSE None]
              /\ steps' = Log(e, <<entry>>)
              /\ pc' = [pc EXCEPT ![e] = IF built THEN "client_built" ELSE "returned"]
    /\ UNCHANGED <<host, little, environ, concurrent, iface_index, raw_sa, http_server,
                   src_addr, rt, elapsed, resp, ip, id>>

\* lib.rs 213-218 and 151-153: block_on builds a current-thread runtime and
\* unwraps the result, then polls the future, which sends the GET.
BlockOn(e) ==
    /\ pc[e] = "client_built"
    /\ \E built \in BOOLEAN, crash \in PanicOutcomes :
          IF built
          THEN /\ rt' = [rt EXCEPT ![e] = "live"]
               /\ steps' = Log(e, <<Step("build_runtime", TRUE),
                                    [Step("get", TRUE) EXCEPT
                                        !.url = http_server[e],
                                        !.bind = Some(Unwrap(client[e]).local_address),
                                        !.timeout = Unwrap(client[e]).timeout]>>)
               /\ pc' = [pc EXCEPT ![e] = "sending"]
               /\ host' = host
          ELSE /\ rt' = rt
               /\ steps' = Log(e, <<Step("build_runtime", FALSE)>>)
               /\ pc' = [pc EXCEPT ![e] = "panicked"]
               /\ host' = crash
    /\ elapsed' = [elapsed EXCEPT ![e] = 0]
    /\ UNCHANGED <<little, environ, concurrent, iface_index, raw_sa, http_server,
                   src_addr, client, resp, ip, id>>

Awaiting(e) == pc[e] \in {"sending", "reading", "reading_diag"}

Deadline(e) == Unwrap(client[e]).timeout

\* A second passes while the request is outstanding.
Tick(e) ==
    /\ Awaiting(e)
    /\ elapsed[e] < Deadline(e)
    /\ elapsed' = [elapsed EXCEPT ![e] = @ + 1]
    /\ UNCHANGED <<host, little, environ, concurrent, pc, iface_index, raw_sa,
                   http_server, src_addr, client, rt, resp, ip, id, steps>>

\* The future resolved to Err: block_on returns, the runtime is dropped and
\* addr_add returns (lib.rs 182-185).
Abandon(e, entries) ==
    /\ steps' = Log(e, entries)
    /\ rt' = [rt EXCEPT ![e] = "dropped"]
    /\ elapsed' = [elapsed EXCEPT ![e] = 0]
    /\ pc' = [pc EXCEPT ![e] = "returned"]

\* lib.rs 151-155: send() fails: a transport error at any moment, or the
\* client's timeout once the deadline is reached.
SendFails(e) ==
    /\ pc[e] = "sending"
    /\ Abandon(e, <<Step("send", FALSE)>>)
    /\ UNCHANGED <<host, little, environ, concurrent, iface_index, raw_sa, http_server,
                   src_addr, client, resp, ip, id>>

\* lib.rs 157-158: the response head arrives before the deadline.
RecvResponse(e) ==
    /\ pc[e] = "sending"
    /\ elapsed[e] < Deadline(e)
    /\ \E status \in Statuses(concurrent) :
          /\ resp' = [resp EXCEPT ![e].status = Some(status)]
          /\ steps' = Log(e, <<Step("send", TRUE), Step("status", StatusAccepted(status))>>)
          /\ pc' = [pc EXCEPT ![e] = IF StatusAccepted(status) THEN "reading"
                                     ELSE "reading_diag"]
    /\ UNCHANGED <<host, little, environ, concurrent, iface_index, raw_sa, http_server,
                   src_addr, client, rt, elapsed, ip, id>>

\* lib.rs 159-164: the status is not 200: the body is read for the log line,
\* whether that read works or not, and the future resolves to Err.
BadStatus(e) ==
    /\ pc[e] = "reading_diag"
    /\ \E got \in BOOLEAN :
          /\ got => elapsed[e] < Deadline(e)
          /\ Abandon(e, <<Step("read_body_diag", got)>>)
    /\ UNCHANGED <<host, little, environ, concurrent, iface_index, raw_sa, http_server,
                   src_addr, client, resp, ip, id>>

\* lib.rs 167-170: reading the body fails (transport error or timeout).
BodyFails(e) ==
    /\ pc[e] = "reading"
    /\ Abandon(e, <<Step("read_body", FALSE)>>)
    /\ UNCHANGED <<host, little, environ, concurrent, iface_index, raw_sa, http_server,
                   src_addr, client, resp, ip, id>>

\* lib.rs 167-189: the body arrives before the deadline and is parsed; the
\* future resolves, block_on returns and the runtime is dropped.  A parse
\* failure returns; otherwise the real ip is known.
BodyArrives(e) ==
    /\ pc[e] = "reading"
    /\ elapsed[e] < Deadline(e)
    /\ \E body \in Bodies(concurrent) :
          LET parsed == ParseBody(body)
          IN  /\ resp' = [resp EXCEPT ![e].body = Some(body)]
              /\ ip' = [ip EXCEPT ![e] = parsed]
              /\ steps' = Log(e, <<Step("read_body", TRUE), Step("parse", IsSome(parsed))>>)
              /\ pc' = [pc EXCEPT ![e] = IF IsSome(parsed) THEN "resolved" ELSE "returned"]
    /\ rt' = [rt EXCEPT ![e] = "dropped"]
    /\ elapsed' = [elapsed EXCEPT ![e] = 0]
    /\ UNCHANGED <<host, little, environ, concurrent, iface_index, raw_sa, http_server,
                   src_addr, client, id>>

\* lib.rs 192-193: mptcpd_pm_get_idm, then mptcpd_idm_get_id on the encoded
\* address; the daemon answers with an identifier of its choosing.
GetId(e) ==
    /\ pc[e] = "resolved"
    /\ \E answer \in Ids :
          /\ id' = [id EXCEPT ![e] = Some(answer)]
          /\ steps' = Log(e, <<Step("get_idm", TRUE),
                               [Step("get_id", TRUE) EXCEPT
                                   !.addr = Some(SockAddrOf(e)), !.id = answer]>>)
    /\ pc' = [pc EXCEPT ![e] = "got_id"]
    /\ UNCHANGED <<host, little, environ, concurrent, iface_index, raw_sa, http_server,
                   src_addr, client, rt, elapsed, resp, ip>>

\* lib.rs 195-211: mptcpd_kpm_add_addr; its result is only logged.
AddAddr(e) ==
    /\ pc[e] = "got_id"
    /\ \E res \in RetCodes :
          /\ steps' = Log(e, <<[Step("add_addr", res = 0) EXCEPT
                                   !.addr = Some(SockAddrOf(e)), !.id = IdArg(e),
                                   !.flags = FlagsArg, !.index = IndexArg(e),
                                   !.ret = res]>>)
          /\ pc' = [pc EXCEPT ![e] = AfterAddAddr(res)]
    /\ UNCHANGED <<host, little, environ, concurrent, iface_index, raw_sa, http_server,
                   src_addr, client, rt, elapsed, resp, ip, id>>

\* Every step of addr_add after its entry
Handle(e) ==
    \/ BuildClient(e)
    \/ BlockOn(e)
    \/ Tick(e)
    \/ SendFails(e)
    \/ RecvResponse(e)
    \/ BadStatus(e)
    \/ BodyFails(e)
    \/ BodyArrives(e)
    \/ GetId(e)
    \/ AddAddr(e)

Next ==
    \/ PluginInit
    \/ PluginExit
    \/ \E e \in Slots : NewLocalAddress(e)
    \/ \E e \in Slots : BuildClient(e)
    \/ \E e \in Slots : BlockOn(e)
    \/ \E e \in Slots : Tick(e)
    \/ \E e \in Slots : SendFails(e)
    \/ \E e \in Slots : RecvResponse(e)
    \/ \E e \in Slots : BadStatus(e)
    \/ \E e \in Slots : BodyFails(e)
    \/ \E e \in Slots : BodyArrives(e)
    \/ \E e \in Slots : GetId(e)
    \/ \E e \in Slots : AddAddr(e)

Spec == Init /\ [][Next]_vars

\* block_on drives the future on the calling thread until it is ready, and
\* the daemon's calls return: a started event keeps taking steps.
FairSpec == Spec /\ \A e \in Slots : WF_vars(Handle(e))


(***************************************************************************)
(* Reading the step log                                                    *)
(***************************************************************************)
Ops(e) == [i \in 1..Len(steps[e]) |-> steps[e][i].op]

Calls(e, op) == {i \in 1..Len(steps[e]) : steps[e][i].op = op}

Called(e, op) == Calls(e, op) # {}

IsPrefix(a, b) == Len(a) <= Len(b) /\ \A i \in 1..Len(a) : a[i] = b[i]

\* the steps of an event that runs to the end, in program order
FullRun ==
    <<"decode", "build_client", "build_runtime", "get", "send", "status",
      "read_body", "parse", "get_idm", "get_id", "add_addr">>

\* the steps of an event whose response is not 200
BadStatusRun ==
    <<"decode", "build_client", "build_runtime", "get", "send", "status",
      "read_body_diag">>

\* calls that leave the module: the HTTP request and the daemon's primitives
ExternalCalls == {"get", "get_idm", "get_id", "add_addr"}

\* the lookup of event e strictly succeeded: family decoded, client built,
\* status 200, body read, trimmed body parsed
LookupSucceeded(e) ==
    /\ raw_sa[e].sa_family \in {AF_INET, AF_INET6}
    /\ IsSome(client[e])
    /\ resp[e].status = Some(StatusOK)
    /\ IsSome(resp[e].body)
    /\ IsSome(ParseIpAddr(Trim(FromUtf8Lossy(Unwrap(resp[e].body)))))

\* the socket address a resolved address is expected to encode to
Encoded(addr) ==
    [sa_family |-> IF addr.v = 4 THEN AF_INET ELSE AF_INET6, port |-> 0,
     mem |-> addr.octets]

(***************************************************************************)
(* Properties                                                              *)
(***************************************************************************)
\* C1: the identifier lookup and mptcpd_kpm_add_addr are called for an event
\* only if that event's lookup strictly succeeded (status 200, body read,
\* trimmed body parsed as an IP address); on every other outcome neither call
\* occurs.
C1_AdvertiseOnlyOnStrictSuccess ==
    \A e \in Slots :
        (Called(e, "get_idm") \/ Called(e, "get_id") \/ Called(e, "add_addr"))
            => LookupSucceeded(e)

C1_Witness ==
    \E e \in Slots :
        /\ Called(e, "add_addr")
        /\ resp[e].body = Some(BodyOkV4)
        /\ pc[e] = "returned"

\* C2: once an event whose resolution succeeded has returned, add_addr was
\* called exactly once, with flags exactly {SIGNAL, SUBFLOW} and the interface
\* index of the triggering event; no event ever calls it twice.
C2_AdvertisedExactlyOnce ==
    \A e \in Slots :
        /\ Cardinality(Calls(e, "add_addr")) <= 1
        /\ (pc[e] = "returned" /\ IsSome(ip[e])) =>
              /\ Cardinality(Calls(e, "add_addr")) = 1
              /\ \A i \in Calls(e, "add_addr") :
                    /\ steps[e][i].flags = {"SIGNAL", "SUBFLOW"}
                    /\ steps[e][i].index = iface_index[e]

C2_Witness ==
    \E e \in Slots :
        /\ pc[e] = "returned"
        /\ IsSome(ip[e])
        /\ iface_index[e] = 2
        /\ Called(e, "add_addr")

\* C3: the steps of an event follow program order (decode, client build, one
\* GET, status check, body parse, identifier lookup, add_addr), each at most
\* once; a step starts only after every earlier step succeeded, the one
\* exception being the diagnostic read of the body of a non-200 response; and
\* after a failed step, a non-zero add_addr included, no external call follows.
C3_StepsSequential ==
    \A e \in Slots :
        /\ IsPrefix(Ops(e), FullRun) \/ Ops(e) = BadStatusRun
        /\ \A i \in 1..Len(steps[e]) : \A j \in (i + 1)..Len(steps[e]) :
              /\ steps[e][i].ok \/ steps[e][j].op = "read_body_diag"
              /\ ~steps[e][i].ok => steps[e][j].op \notin ExternalCalls
        /\ \A op \in ExternalCalls : Cardinality(Calls(e, op)) <= 1

C3_Witness ==
    \E e \in Slots :
        /\ Ops(e) = FullRun
        /\ steps[e][Len(steps[e])].ret # 0
        /\ pc[e] = "returned"

\* C4: whatever fails while an event is handled, the host process keeps
\* running: the callback returns to the daemon.
C4_EventErrorsNonFatal ==
    \A e \in Slots : pc[e] # "idle" => (host \notin PanicOutcomes /\ pc[e] # "panicked")

\* C5: an event whose address family is neither AF_INET nor AF_INET6 is
\* aborted at the decoder: no client, no runtime, no request, no identifier
\* lookup and no advertisement.
C5_UnsupportedFamilyAborts ==
    \A e \in Slots :
        (pc[e] # "idle" /\ raw_sa[e].sa_family \notin {AF_INET, AF_INET6}) =>
            /\ pc[e] = "returned"
            /\ steps[e] = <<Step("decode", FALSE)>>
            /\ client[e] = None
            /\ rt[e] = "none"
            /\ resp[e] = NoResp
            /\ ip[e] = None

C5_Witness ==
    \E e \in Slots : pc[e] = "returned" /\ raw_sa[e].sa_family = 17

\* C6: every event that has entered addr_add eventually returns.
C6_EveryEventReturns ==
    \A e \in Slots : (pc[e] = "decoded") ~> (pc[e] = "returned")

\* The part of C6 that is about the lookup alone: a returned event has no
\* live runtime and no running timer, a runtime is live only while its own
\* event awaits the lookup, and a request never runs beyond its timeout.
LookupNeverOutlivesCallback ==
    \A e \in Slots :
        /\ rt[e] = "live" <=> Awaiting(e)
        /\ ~Awaiting(e) => elapsed[e] = 0
        /\ Awaiting(e) => elapsed[e] <= TimeoutSecs(environ)

\* C7: what an event does with the path manager is a function of its own
\* interface, its own lookup response and the daemon's answer to its own
\* identifier lookup: a returned event advertised exactly if its own lookup
\* succeeded, and then with the address parsed from its own body, the
\* identifier answered to it, the fixed flags and its own interface index.
C7_EventsIndependent ==
    \A e \in Slots :
        pc[e] = "returned" =>
            /\ Called(e, "add_addr") <=> LookupSucceeded(e)
            /\ \A i \in Calls(e, "add_addr") :
                  /\ steps[e][i].addr = Some(Encoded(Unwrap(ParseBody(Unwrap(resp[e].body)))))
                  /\ steps[e][i].id = Unwrap(id[e])
                  /\ steps[e][i].flags = AdvertisementFlags
                  /\ steps[e][i].index = iface_index[e]

C7_Witness ==
    /\ concurrent
    /\ pc[1] = "returned" /\ Called(1, "add_addr") /\ iface_index[1] = 1
    /\ pc[2] = "reading_diag" /\ iface_index[2] = 2
    /\ raw_sa[1] # raw_sa[2]

\* C8: the decoder is byte-exact: the octets of the decoded address are the
\* payload bytes of the record in memory order, for IPv4 and for IPv6, and
\* encoding the decoded address gives the payload back.
C8_DecodeByteExact ==
    \A e \in Slots :
        IsSome(src_addr[e]) =>
            /\ Unwrap(src_addr[e]).octets = raw_sa[e].mem
            /\ Unwrap(src_addr[e]).v = (IF raw_sa[e].sa_family = AF_INET THEN 4 ELSE 6)
            /\ Len(Unwrap(src_addr[e]).octets) = (IF raw_sa[e].sa_family = AF_INET THEN 4 ELSE 16)
            /\ EncodeSockAddr(Unwrap(src_addr[e]), 0, little).mem = raw_sa[e].mem
            /\ EncodeSockAddr(Unwrap(src_addr[e]), 0, little).sa_family = raw_sa[e].sa_family

C8_Witness ==
    \E e \in Slots :
        /\ little
        /\ raw_sa[e] = RawRecord(AF_INET, <<93, 184, 216, 34>>)
        /\ src_addr[e] = Some(V4(<<93, 184, 216, 34>>))

\* C9: the address given to mptcpd_idm_get_id and to mptcpd_kpm_add_addr is
\* the resolved address of the event with port 0, and the identifier given to
\* add_addr is the one the identifier lookup of the same event returned for
\* that address.
C9_AdvertisedAddressAndId ==
    \A e \in Slots :
        /\ \A j \in Calls(e, "get_id") :
              /\ IsSome(ip[e])
              /\ steps[e][j].addr = Some(Encoded(Unwrap(ip[e])))
        /\ \A i \in Calls(e, "add_addr") :
              /\ steps[e][i].addr = Some(Encoded(Unwrap(ip[e])))
              /\ \E j \in Calls(e, "get_id") :
                    /\ j < i
                    /\ steps[e][j].addr = steps[e][i].addr
                    /\ steps[e][j].id = steps[e][i].id

C9_Witness ==
    \E e \in Slots :
        /\ Called(e, "add_addr")
        /\ ip[e] = ParseBody(BodyOkV6)
        /\ id[e] = Some(2)

\* C10: whenever a GET is issued, the client issuing it is bound to the
\* address decoded from the raw record of the same event.
C10_BindIsLocalAddress ==
    \A e \in Slots :
        /\ IsSome(client[e]) =>
              /\ Some(Unwrap(client[e]).local_address) = src_addr[e]
              /\ Unwrap(client[e]).local_address.octets = raw_sa[e].mem
        /\ \A i \in Calls(e, "get") :
              /\ steps[e][i].bind = src_addr[e]
              /\ Unwrap(steps[e][i].bind).octets = raw_sa[e].mem

C10_Witness ==
    \E e \in Slots :
        /\ Called(e, "get")
        /\ raw_sa[e] = RawRecord(AF_INET, <<192, 168, 1, 10>>)
        /\ steps[e][4].bind = Some(V4(<<192, 168, 1, 10>>))

====
